---- MODULE Spec2Model ----
(***************************************************************************)
(* The memory server of main.go: a bbolt bucket of JSON-encoded Memory     *)
(* records (the Record Store) and a bleve index derived from it, driven by *)
(* the three tool handlers add_memory, search_memory and delete_memory.    *)
(*                                                                         *)
(* Every step that touches the bucket or the index is one action, so that  *)
(* handlers running for different callers interleave between the store     *)
(* step and the index step exactly where the code leaves the two stores    *)
(* unsynchronised.  db.Update, index.Index, index.Delete and index.Search  *)
(* return an error value the code tests, so each may fail.                 *)
(*                                                                         *)
(* The semantic variant of the server (unnamed/part_000, part_001), which  *)
(* keeps its documents in one chromem collection, is modelled on the same  *)
(* variables further down.                                                 *)
(***************************************************************************)
EXTENDS Integers, Sequences, FiniteSets, TLC

VARIABLES
    boot,    \* position of NewMemoryStore: "down", "db_open", "rebuild", "up",
             \* "failed"; "chromem" while the semantic variant serves
    todo,    \* NewMemoryStore: keys the bucket ForEach has still to visit
    db,      \* the "memories" bucket: key (the id) -> JSON document
    index,   \* the bleve index: document id -> indexed fields; NoIndex if no artifact
    clock,   \* the last value time.Now().UnixNano() returned
    pc,      \* per caller: the step its handler is at
    req,     \* per caller: the tool call's arguments
    memory,  \* per caller: the Memory value Add has built
    hits,    \* per caller: searchResult.Hits of Search
    res,     \* per caller: the CallToolResult of its last finished call
    prev,    \* per caller: the result it received before that one (without the records)
    calls    \* the number of tool calls the server has accepted

vars == <<boot, todo, db, index, clock, pc, req, memory, hits, res, prev, calls>>

(***************************************************************************)
(* Bounds of the model.                                                    *)
(***************************************************************************)
NumCallers == 2   \* callers with a tool call in progress at once
MaxClock == 2     \* clock values read while the server runs
MaxCalls == 3     \* tool calls accepted in one run
MaxRecords == 3   \* records in the files a run starts from

Callers == 1..NumCallers
Ticks == 1..MaxClock

(***************************************************************************)
(* Values.                                                                 *)
(***************************************************************************)
\* fmt.Sprintf("mem_%d", time.Now().UnixNano())
MemID(t) == "mem_" \o ToString(t)

IDs == {MemID(t) : t \in Ticks}

\* The ids of the records earlier runs left in the files.
DiskIDs == {MemID(t) : t \in 1..MaxRecords}

\* A text is the sequence of its words.
\* type Memory struct { ID, Content, Type, Tags } (the two timestamps, which
\* nothing reads, are left out)
Memory(id, content, memType, tags) ==
    [ID |-> id, Content |-> content, Type |-> memType, Tags |-> tags]

NoMemory == [ID |-> ""]

\* json.Marshal(memory): the keys are the struct's json tags
Marshal(m) == [id |-> m.ID, content |-> m.Content, type |-> m.Type, tags |-> m.Tags]

\* json.Unmarshal(data, &memory)
Unmarshal(d) == [ID |-> d.id, Content |-> d.content, Type |-> d.type, Tags |-> d.tags]

\* An absent index artifact (no directory at dbPath + ".bleve").
NoIndex == [absent |-> TRUE]

NoRequest == [tool |-> "none"]
NoResult == [isError |-> FALSE, text |-> "", id |-> "", memories |-> << >>]

\* mcp.NewToolResultError(text)
ToolResultError(text) == [isError |-> TRUE, text |-> text, id |-> "", memories |-> << >>]

\* mcp.NewToolResultText(...)
ToolResultText(text, id, memories) ==
    [isError |-> FALSE, text |-> text, id |-> id, memories |-> memories]

\* What a caller keeps of an earlier result.
Summary(r) == [isError |-> r.isError, text |-> r.text, id |-> r.id]

\* The empty bucket, the empty index.
Empty == [x \in {} |-> x]

Range(s) == {s[i] : i \in DOMAIN s}

\* f with key k bound to v (b.Put, index.Index: insert or overwrite)
Put(f, k, v) == [x \in (DOMAIN f) \cup {k} |-> IF x = k THEN v ELSE f[x]]

\* f without key k (b.Delete, index.Delete: no error when k is absent)
Remove(f, k) == [x \in (DOMAIN f) \ {k} |-> f[x]]

(***************************************************************************)
(* Init: the state NewMemoryStore returns for a fresh dbPath: an empty     *)
(* bucket, an empty new index, every handler idle.                         *)
(***************************************************************************)
Init ==
    /\ boot = "up"
    /\ todo = {}
    /\ db = Empty
    /\ index = Empty
    /\ clock = 1
    /\ pc = [p \in Callers |-> "idle"]
    /\ req = [p \in Callers |-> NoRequest]
    /\ memory = [p \in Callers |-> NoMemory]
    /\ hits = [p \in Callers |-> << >>]
    /\ res = [p \in Callers |-> NoResult]
    /\ prev = [p \in Callers |-> Summary(NoResult)]
    /\ calls = 0

\* The server accepts a tool call of caller p.
Accept(p) ==
    /\ boot = "up"
    /\ pc[p] \in {"idle", "done"}
    /\ calls < MaxCalls
    /\ calls' = calls + 1

\* A handler returns: its result replaces the caller's previous one.
Return(p, result) ==
    /\ pc' = [pc EXCEPT ![p] = "done"]
    /\ res' = [res EXCEPT ![p] = result]
    /\ prev' = [prev EXCEPT ![p] = Summary(res[p])]
    /\ req' = [req EXCEPT ![p] = NoRequest]
    /\ memory' = [memory EXCEPT ![p] = NoMemory]
    /\ hits' = [hits EXCEPT ![p] = << >>]

(***************************************************************************)
(* The bleve index.  NewMemoryStore creates it with bleve.NewIndexMapping() *)
(* and nothing else, so bleve's defaults apply: a struct is indexed under  *)
(* the names of its json tags (DocumentMapping.StructTagKey defaults to     *)
(* "json"), and text goes through the "standard" analyzer, which splits    *)
(* into words and drops English stop words.                                *)
(***************************************************************************)
StopWords == {"a", "the", "of", "is"}

\* The terms the standard analyzer keeps of a text / of a list of strings.
Analyze(words) == {w \in Range(words) : w \notin StopWords}

\* index.Index(memory.ID, memory): the document's fields and their terms.
IndexDoc(m) ==
    [content |-> Analyze(m.Content), type |-> {m.Type}, tags |-> Analyze(m.Tags)]

\* The terms a document holds in a field; none if it has no such field.
FieldTerms(doc, field) == IF field \in DOMAIN doc THEN doc[field] ELSE {}

\* matchQuery.SetField("Content"), termQuery.SetField("Tags")
ContentField == "Content"
TagsField == "Tags"

\* bleve.NewMatchQuery(queryString): some analysed word of the query occurs
MatchQuery(doc, field, text) == \E w \in Analyze(text) : w \in FieldTerms(doc, field)

\* bleve.NewTermQuery(tag): the exact term occurs
TermQuery(doc, field, tag) == tag \in FieldTerms(doc, field)

\* The query Search builds: the text clause if queryString != "", one term
\* clause per tag, their conjunction; match-all when there is no clause.
SearchQuery(doc, queryString, tags) ==
    /\ queryString # << >> => MatchQuery(doc, ContentField, queryString)
    /\ \A i \in DOMAIN tags : TermQuery(doc, TagsField, tags[i])

\* searchRequest.Size = 100
Size == 100

Min(a, b) == IF a < b THEN a ELSE b

\* The orders in which a set of ids can be listed.
Orders(S) ==
    {s \in [1..Cardinality(S) -> S] : \A i, j \in DOMAIN s : i # j => s[i] # s[j]}

\* ms.index.Search(searchRequest): the matching documents in rank order, cut
\* to Size.  The rank (score, then index-internal order) is left open.
SearchHits(idx, queryString, tags) ==
    LET matched == {id \in DOMAIN idx : SearchQuery(idx[id], queryString, tags)}
    IN  {SubSeq(s, 1, Min(Len(s), Size)) : s \in Orders(matched)}

\* Hydrate, were a hit without a value to end the loop instead of being skipped.
RECURSIVE HydrateStopAtMissing(_, _)
HydrateStopAtMissing(bucket, hs) ==
    IF hs = << >> THEN << >>
    ELSE IF Head(hs) \in DOMAIN bucket
         THEN <<Unmarshal(bucket[Head(hs)])>> \o HydrateStopAtMissing(bucket, Tail(hs))
         ELSE << >>

\* Hydrate, were a hit without a value turned into a record all the same.
RECURSIVE HydrateNoNilCheck(_, _)
HydrateNoNilCheck(bucket, hs) ==
    IF hs = << >> THEN << >>
    ELSE IF Head(hs) \in DOMAIN bucket
         THEN <<Unmarshal(bucket[Head(hs)])>> \o HydrateNoNilCheck(bucket, Tail(hs))
         ELSE <<Memory(Head(hs), << >>, "", << >>)>> \o HydrateNoNilCheck(bucket, Tail(hs))

\* Hydrate, were each record put in front of the ones fetched before it.
RECURSIVE HydrateReversed(_, _)
HydrateReversed(bucket, hs) ==
    IF hs = << >> THEN << >>
    ELSE IF Head(hs) \in DOMAIN bucket
         THEN HydrateReversed(bucket, Tail(hs)) \o <<Unmarshal(bucket[Head(hs)])>>
         ELSE HydrateReversed(bucket, Tail(hs))

\* db.View over the hits: a hit whose key has no value is skipped.
RECURSIVE Hydrate(_, _)
Hydrate(bucket, hs) ==
    IF hs = << >> THEN << >>
    ELSE IF Head(hs) \in DOMAIN bucket
         THEN <<Unmarshal(bucket[Head(hs)])>> \o Hydrate(bucket, Tail(hs))
         ELSE Hydrate(bucket, Tail(hs))

(***************************************************************************)
(* add_memory                                                              *)
(***************************************************************************)
\* A string argument of a tool call, or anything else (absent, a number).
Str(s) == [isString |-> TRUE, s |-> s]
NotStr == [isString |-> FALSE]

\* AddMemory, were the ok of the type assertion dropped: a content that is no
\* string is taken as the empty string.
AddMemoryUnchecked(p, content, tags) ==
    /\ Accept(p)
    /\ \E t \in clock..MaxClock :
        /\ clock' = t
        /\ memory' = [memory EXCEPT ![p] =
              Memory(MemID(t), IF content.isString THEN content.s ELSE << >>, "fact", tags)]
    /\ req' = [req EXCEPT ![p] =
                 [tool |-> "add_memory", content |-> content, tags |-> tags]]
    /\ pc' = [pc EXCEPT ![p] = "add_put"]
    /\ UNCHANGED <<boot, todo, db, index, hits, res, prev>>

\* The handler up to memStore.Add's construction of the Memory value.
AddMemory(p, content, tags) ==
    /\ Accept(p)
    /\ IF ~content.isString
       THEN /\ Return(p, ToolResultError("content must be a string"))
            /\ UNCHANGED <<boot, todo, db, index, clock>>
       ELSE /\ \E t \in clock..MaxClock :
                /\ clock' = t
                /\ memory' = [memory EXCEPT ![p] = Memory(MemID(t), content.s, "fact", tags)]
            /\ req' = [req EXCEPT ![p] =
                         [tool |-> "add_memory", content |-> content, tags |-> tags]]
            /\ pc' = [pc EXCEPT ![p] = "add_put"]
            /\ UNCHANGED <<boot, todo, db, index, hits, res, prev>>

\* ms.db.Update(... b.Put(memory.ID, data) ...)
AddPut(p) ==
    /\ pc[p] = "add_put"
    /\ \/ /\ db' = Put(db, memory[p].ID, Marshal(memory[p]))
          /\ pc' = [pc EXCEPT ![p] = "add_index"]
          /\ UNCHANGED <<req, memory, hits, res, prev>>
       \/ /\ Return(p, ToolResultError("failed to save memory"))
          /\ UNCHANGED db
    /\ UNCHANGED <<boot, todo, index, clock, calls>>

\* AddIndex, were the error of index.Index dropped.
AddIndexIgnoreError(p) ==
    /\ pc[p] = "add_index"
    /\ \/ index' = Put(index, memory[p].ID, IndexDoc(memory[p]))
       \/ UNCHANGED index
    /\ Return(p, ToolResultText("Memory stored with ID", memory[p].ID, << >>))
    /\ UNCHANGED <<boot, todo, db, clock, calls>>

\* ms.index.Index(memory.ID, memory), and the handler's result
AddIndex(p) ==
    /\ pc[p] = "add_index"
    /\ \/ /\ index' = Put(index, memory[p].ID, IndexDoc(memory[p]))
          /\ Return(p, ToolResultText("Memory stored with ID", memory[p].ID, << >>))
       \/ /\ Return(p, ToolResultError("failed to index memory"))
          /\ UNCHANGED index
    /\ UNCHANGED <<boot, todo, db, clock, calls>>

(***************************************************************************)
(* search_memory                                                           *)
(***************************************************************************)
\* The handler up to memStore.Search; a "limit" argument is never read.
SearchMemory(p, query, tags, limit) ==
    /\ Accept(p)
    /\ req' = [req EXCEPT ![p] =
                 [tool |-> "search_memory", query |-> query, tags |-> tags, limit |-> limit]]
    /\ pc' = [pc EXCEPT ![p] = "search_index"]
    /\ UNCHANGED <<boot, todo, db, index, clock, memory, hits, res, prev>>

\* ms.index.Search(searchRequest)
SearchIndex(p) ==
    /\ pc[p] = "search_index"
    /\ \/ /\ \E hs \in SearchHits(index, req[p].query, req[p].tags) :
                hits' = [hits EXCEPT ![p] = hs]
          /\ pc' = [pc EXCEPT ![p] = "search_view"]
          /\ UNCHANGED <<req, memory, res, prev>>
       \/ Return(p, ToolResultError("search failed"))
    /\ UNCHANGED <<boot, todo, db, index, clock, calls>>

\* SearchView, were it to delete from the index the hits it finds no record for.
SearchViewPrune(p) ==
    /\ pc[p] = "search_view"
    /\ LET memories == Hydrate(db, hits[p])
       IN  Return(p, ToolResultText(IF memories = << >>
                                    THEN "No matching memories found."
                                    ELSE "results", "", memories))
    /\ index' = [id \in DOMAIN index \ (Range(hits[p]) \ DOMAIN db) |-> index[id]]
    /\ UNCHANGED <<boot, todo, db, clock, calls>>

\* ms.db.View(...), and the handler's formatting of the results
SearchView(p) ==
    /\ pc[p] = "search_view"
    /\ LET memories == Hydrate(db, hits[p])
       IN  Return(p, ToolResultText(IF memories = << >>
                                    THEN "No matching memories found."
                                    ELSE "results", "", memories))
    /\ UNCHANGED <<boot, todo, db, index, clock, calls>>

(***************************************************************************)
(* delete_memory                                                           *)
(***************************************************************************)
\* The handler up to memStore.Delete
DeleteMemory(p, id) ==
    /\ Accept(p)
    /\ IF ~id.isString
       THEN /\ Return(p, ToolResultError("id must be a string"))
            /\ UNCHANGED <<boot, todo, db, index, clock>>
       ELSE /\ req' = [req EXCEPT ![p] = [tool |-> "delete_memory", id |-> id]]
            /\ pc' = [pc EXCEPT ![p] = "delete_update"]
            /\ UNCHANGED <<boot, todo, db, index, clock, memory, hits, res, prev>>

\* DeleteUpdate, were an absent key reported as an error.
DeleteUpdateNotFound(p) ==
    /\ pc[p] = "delete_update"
    /\ \/ /\ req[p].id.s \in DOMAIN db
          /\ db' = Remove(db, req[p].id.s)
          /\ pc' = [pc EXCEPT ![p] = "delete_index"]
          /\ UNCHANGED <<req, memory, hits, res, prev>>
       \/ /\ req[p].id.s \notin DOMAIN db
          /\ Return(p, ToolResultError("memory not found"))
          /\ UNCHANGED db
       \/ /\ Return(p, ToolResultError("failed to delete memory"))
          /\ UNCHANGED db
    /\ UNCHANGED <<boot, todo, index, clock, calls>>

\* ms.db.Update(... b.Delete(id) ...)
DeleteUpdate(p) ==
    /\ pc[p] = "delete_update"
    /\ \/ /\ db' = Remove(db, req[p].id.s)
          /\ pc' = [pc EXCEPT ![p] = "delete_index"]
          /\ UNCHANGED <<req, memory, hits, res, prev>>
       \/ /\ Return(p, ToolResultError("failed to delete memory"))
          /\ UNCHANGED db
    /\ UNCHANGED <<boot, todo, index, clock, calls>>

\* DeleteIndex, were the error of index.Delete dropped.
DeleteIndexIgnoreError(p) ==
    /\ pc[p] = "delete_index"
    /\ \/ index' = Remove(index, req[p].id.s)
       \/ UNCHANGED index
    /\ Return(p, ToolResultText("deleted successfully", req[p].id.s, << >>))
    /\ UNCHANGED <<boot, todo, db, clock, calls>>

\* ms.index.Delete(id), and the handler's result
DeleteIndex(p) ==
    /\ pc[p] = "delete_index"
    /\ \/ /\ index' = Remove(index, req[p].id.s)
          /\ Return(p, ToolResultText("deleted successfully", req[p].id.s, << >>))
       \/ /\ Return(p, ToolResultError("failed to delete from index"))
          /\ UNCHANGED index
    /\ UNCHANGED <<boot, todo, db, clock, calls>>

(***************************************************************************)
(* The server: any caller may have any tool call in progress.              *)
(***************************************************************************)
\* The add_memory calls tried: content (a text is the sequence of its words,
\* or the argument is no string) and tags.
AddArgs ==
    { [content |-> Str(<<"paris">>), tags |-> <<"a">>],
      [content |-> NotStr, tags |-> << >>] }

\* The search_memory calls tried: query, tags, limit (0: no limit given).
SearchArgs ==
    { [query |-> << >>, tags |-> << >>, limit |-> 1],
      [query |-> <<"paris">>, tags |-> << >>, limit |-> 0] }

\* The delete_memory calls tried.
IdArgs == {Str(id) : id \in IDs} \cup {NotStr}

Next ==
    \E p \in Callers :
        \/ \E a \in AddArgs : AddMemory(p, a.content, a.tags)
        \/ AddPut(p)
        \/ AddIndex(p)
        \/ \E a \in SearchArgs : SearchMemory(p, a.query, a.tags, a.limit)
        \/ SearchIndex(p)
        \/ SearchView(p)
        \/ \E id \in IdArgs : DeleteMemory(p, id)
        \/ DeleteUpdate(p)
        \/ DeleteIndex(p)

Spec == Init /\ [][Next]_vars

(***************************************************************************)
(* Startup.  NewMemoryStore runs against whatever the previous run left at *)
(* dbPath and dbPath + ".bleve"; main exits (log.Fatalf) when it fails.    *)
(***************************************************************************)
\* A record as an earlier run's Add stored it.
StoredDoc(id) == Marshal(Memory(id, <<"paris">>, "fact", <<"a">>))

\* The store files an earlier run can leave (a removed file is opened as a
\* new, empty one).
DiskStore(S) == [id \in S |-> StoredDoc(id)]

DiskIndex(S) == [id \in S |-> IndexDoc(Unmarshal(StoredDoc(id)))]

InitStart ==
    /\ boot = "down"
    /\ todo = {}
    /\ \E S \in SUBSET DiskIDs : db = DiskStore(S)
    /\ \/ index = NoIndex
       \/ \E S \in SUBSET DiskIDs : index = DiskIndex(S)
    /\ clock = 1
    /\ pc = [p \in Callers |-> "idle"]
    /\ req = [p \in Callers |-> NoRequest]
    /\ memory = [p \in Callers |-> NoMemory]
    /\ hits = [p \in Callers |-> << >>]
    /\ res = [p \in Callers |-> NoResult]
    /\ prev = [p \in Callers |-> Summary(NoResult)]
    /\ calls = 0

\* bolt.Open(dbPath, 0600, nil) and CreateBucketIfNotExists
OpenDB ==
    /\ boot = "down"
    /\ \/ boot' = "db_open"
       \/ boot' = "failed"
    /\ UNCHANGED <<todo, db, index, clock, pc, req, memory, hits, res, prev, calls>>

\* bleve.Open(indexPath): an existing index is taken as it is; otherwise
\* bleve.New(indexPath, mapping), and the bucket's keys are to be indexed.
OpenIndex ==
    /\ boot = "db_open"
    /\ IF index # NoIndex
       THEN /\ boot' = "up"
            /\ UNCHANGED <<todo, index>>
       ELSE \/ /\ index' = Empty
               /\ todo' = DOMAIN db
               /\ boot' = "rebuild"
            \/ /\ boot' = "failed"
               /\ UNCHANGED <<todo, index>>
    /\ UNCHANGED <<db, clock, pc, req, memory, hits, res, prev, calls>>

\* One turn of b.ForEach: json.Unmarshal(v, &memory); index.Index(memory.ID, memory)
RebuildStep ==
    /\ boot = "rebuild"
    /\ \E k \in todo :
        \/ /\ index' = Put(index, Unmarshal(db[k]).ID, IndexDoc(Unmarshal(db[k])))
           /\ todo' = todo \ {k}
           /\ boot' = boot
        \/ /\ boot' = "failed"
           /\ todo' = {}
           /\ UNCHANGED index
    /\ UNCHANGED <<db, clock, pc, req, memory, hits, res, prev, calls>>

\* ForEach has visited every key: NewMemoryStore returns the store.
RebuildDone ==
    /\ boot = "rebuild"
    /\ todo = {}
    /\ boot' = "up"
    /\ UNCHANGED <<todo, db, index, clock, pc, req, memory, hits, res, prev, calls>>

\* The process has ended (log.Fatalf, or main returned and Close ran) and is
\* started again on the same files.
Restart ==
    /\ boot \in {"failed", "up"}
    /\ boot' = "down"
    /\ UNCHANGED <<todo, db, index, clock, pc, req, memory, hits, res, prev, calls>>

NextStart ==
    \/ OpenDB
    \/ OpenIndex
    \/ RebuildStep
    \/ RebuildDone
    \/ Restart

SpecStart == InitStart /\ [][NextStart]_vars

(***************************************************************************)
(* Searching a store that earlier calls have filled.  Each id is in one of *)
(* the conditions Add and Delete can leave it in: absent; stored and       *)
(* indexed; stored only (Add's index.Index failed); indexed only (Delete's *)
(* index.Delete failed).  One caller makes one search.                     *)
(***************************************************************************)
\* The records the earlier add_memory calls made.
RecordArgs ==
    { [content |-> <<"paris">>, tags |-> <<"a">>],
      [content |-> <<"water">>, tags |-> <<"b">>],
      [content |-> <<"paris">>, tags |-> <<"a", "b">>] }

FilledRecord(id, a) == Memory(id, a.content, "fact", a.tags)

\* What one id contributes to the bucket and to the index.
Conditions ==
    {[stored |-> FALSE, indexed |-> FALSE, arg |-> CHOOSE a \in RecordArgs : TRUE]}
        \cup [stored : {TRUE}, indexed : BOOLEAN, arg : RecordArgs]
        \cup [stored : {FALSE}, indexed : {TRUE}, arg : RecordArgs]

InitQuery ==
    /\ boot = "up"
    /\ todo = {}
    /\ \E c \in [DiskIDs -> Conditions] :
          /\ db = [id \in {x \in DiskIDs : c[x].stored} |-> Marshal(FilledRecord(id, c[id].arg))]
          /\ index = [id \in {x \in DiskIDs : c[x].indexed} |-> IndexDoc(FilledRecord(id, c[id].arg))]
    /\ clock = 1
    /\ pc = [p \in Callers |-> "idle"]
    /\ req = [p \in Callers |-> NoRequest]
    /\ memory = [p \in Callers |-> NoMemory]
    /\ hits = [p \in Callers |-> << >>]
    /\ res = [p \in Callers |-> NoResult]
    /\ prev = [p \in Callers |-> Summary(NoResult)]
    /\ calls = 0

\* The search_memory calls tried on the filled store.
QueryArgs ==
    { [query |-> << >>, tags |-> << >>, limit |-> 0],
      [query |-> << >>, tags |-> << >>, limit |-> 1],
      [query |-> << >>, tags |-> << >>, limit |-> 1000],
      [query |-> << >>, tags |-> <<"a", "b">>, limit |-> 0],
      [query |-> << >>, tags |-> <<"b">>, limit |-> 0],
      [query |-> <<"paris">>, tags |-> << >>, limit |-> 0],
      [query |-> <<"paris">>, tags |-> <<"a">>, limit |-> 0] }

NextQuery ==
    \/ \E a \in QueryArgs : pc[1] = "idle" /\ SearchMemory(1, a.query, a.tags, a.limit)
    \/ SearchIndex(1)
    \/ SearchView(1)

SpecQuery == InitQuery /\ [][NextQuery]_vars

(***************************************************************************)
(* The semantic variant (unnamed/part_000; part_001 has the same handlers): *)
(* one chromem collection holds the documents with their embeddings, which *)
(* come from the OpenAI client.  It has add_memory and search_memory and   *)
(* no delete.  Here db is the collection's documents and index stays       *)
(* empty.  chromem's AddDocument puts the document in the collection's     *)
(* in-memory map and then persists it to its file, so its error leaves the *)
(* document in the collection; QueryEmbedding refuses nResults <= 0 and    *)
(* nResults above the number of documents.                                 *)
(***************************************************************************)
\* The vector the provider returns for a text.
Embedding(text) == [of |-> text]

\* chromem.Document{ID, Metadata, Embedding, Content}
Document(id, metadata, embedding, content) ==
    [ID |-> id, Metadata |-> metadata, Embedding |-> embedding, Content |-> content]

\* limit := 5
DefaultLimit == 5

InitSemantic ==
    /\ boot = "chromem"
    /\ todo = {}
    /\ db = Empty
    /\ index = Empty
    /\ clock = 1
    /\ pc = [p \in Callers |-> "idle"]
    /\ req = [p \in Callers |-> NoRequest]
    /\ memory = [p \in Callers |-> NoMemory]
    /\ hits = [p \in Callers |-> << >>]
    /\ res = [p \in Callers |-> NoResult]
    /\ prev = [p \in Callers |-> Summary(NoResult)]
    /\ calls = 0

\* The semantic server accepts a tool call of caller p.
SemAccept(p) ==
    /\ boot = "chromem"
    /\ pc[p] \in {"idle", "done"}
    /\ calls < MaxCalls
    /\ calls' = calls + 1

\* add_memory handler up to generateEmbedding
SemAddMemory(p, content, metadata) ==
    /\ SemAccept(p)
    /\ IF ~content.isString
       THEN /\ Return(p, ToolResultError("content must be a string"))
            /\ UNCHANGED <<boot, todo, db, index, clock>>
       ELSE /\ req' = [req EXCEPT ![p] =
                         [tool |-> "add_memory", content |-> content, metadata |-> metadata]]
            /\ pc' = [pc EXCEPT ![p] = "sem_add_embed"]
            /\ UNCHANGED <<boot, todo, db, index, clock, memory, hits, res, prev>>

\* memServer.generateEmbedding(content), then the chromem.Document literal.
\* CreateEmbeddings returns an error, or a response whose Data[0] is read
\* unchecked: with no data in it the handler panics and the process ends.
SemAddEmbed(p) ==
    /\ boot = "chromem"
    /\ pc[p] = "sem_add_embed"
    /\ \/ /\ \E t \in clock..MaxClock :
                /\ clock' = t
                /\ memory' = [memory EXCEPT ![p] =
                      Document(MemID(t), req[p].metadata, Embedding(req[p].content.s),
                               req[p].content.s)]
          /\ pc' = [pc EXCEPT ![p] = "sem_add_document"]
          /\ UNCHANGED <<boot, req, hits, res, prev>>
       \/ /\ Return(p, ToolResultError("failed to generate embedding"))
          /\ UNCHANGED <<boot, clock>>
       \/ /\ boot' = "failed"
          /\ UNCHANGED <<clock, pc, req, memory, hits, res, prev>>
    /\ UNCHANGED <<todo, db, index, calls>>

\* collection.AddDocument(ctx, doc), and the handler's result
SemAddDocument(p) ==
    /\ boot = "chromem"
    /\ pc[p] = "sem_add_document"
    /\ \/ /\ db' = Put(db, memory[p].ID, memory[p])
          /\ Return(p, ToolResultText("Memory stored with ID", memory[p].ID, << >>))
       \/ /\ db' = Put(db, memory[p].ID, memory[p])
          /\ Return(p, ToolResultError("failed to add document"))
    /\ UNCHANGED <<boot, todo, index, clock, calls>>

\* search_memory handler up to generateEmbedding; limit 0 stands for no
\* limit argument.
SemSearchMemory(p, query, limit) ==
    /\ SemAccept(p)
    /\ IF ~query.isString
       THEN /\ Return(p, ToolResultError("query must be a string"))
            /\ UNCHANGED <<boot, todo, db, index, clock>>
       ELSE /\ req' = [req EXCEPT ![p] =
                         [tool |-> "search_memory", query |-> query,
                          limit |-> IF limit = 0 THEN DefaultLimit ELSE limit]]
            /\ pc' = [pc EXCEPT ![p] = "sem_search_embed"]
            /\ UNCHANGED <<boot, todo, db, index, clock, memory, hits, res, prev>>

\* memServer.generateEmbedding(query)
SemSearchEmbed(p) ==
    /\ boot = "chromem"
    /\ pc[p] = "sem_search_embed"
    /\ \/ /\ pc' = [pc EXCEPT ![p] = "sem_search_query"]
          /\ UNCHANGED <<boot, req, memory, hits, res, prev>>
       \/ /\ Return(p, ToolResultError("failed to generate query embedding"))
          /\ UNCHANGED boot
       \/ /\ boot' = "failed"
          /\ UNCHANGED <<pc, req, memory, hits, res, prev>>
    /\ UNCHANGED <<todo, db, index, clock, calls>>

\* collection.QueryEmbedding(ctx, queryEmbedding, limit, nil, nil): the limit
\* most similar documents; which those are is left open.
QueryEmbedding(documents, nResults) ==
    IF nResults <= 0 \/ nResults > Cardinality(DOMAIN documents)
    THEN {}
    ELSE {[i \in 1..nResults |-> documents[s[i]]] : s \in Orders(DOMAIN documents)}

\* collection.QueryEmbedding and the handler's formatting of the results
SemSearchQuery(p) ==
    /\ boot = "chromem"
    /\ pc[p] = "sem_search_query"
    /\ \/ \E results \in QueryEmbedding(db, req[p].limit) :
             Return(p, ToolResultText(IF results = << >>
                                      THEN "No matching memories found."
                                      ELSE "results", "", results))
       \/ Return(p, ToolResultError("search failed"))
    /\ UNCHANGED <<boot, todo, db, index, clock, calls>>

\* The semantic add_memory and search_memory calls tried.
SemAddArgs ==
    { [content |-> Str(<<"paris">>), metadata |-> ""],
      [content |-> NotStr, metadata |-> ""] }

SemSearchArgs ==
    { [query |-> Str(<<"paris">>), limit |-> 0],
      [query |-> Str(<<"paris">>), limit |-> 1],
      [query |-> NotStr, limit |-> 0] }

NextSemantic ==
    \E p \in Callers :
        \/ \E a \in SemAddArgs : SemAddMemory(p, a.content, a.metadata)
        \/ SemAddEmbed(p)
        \/ SemAddDocument(p)
        \/ \E a \in SemSearchArgs : SemSearchMemory(p, a.query, a.limit)
        \/ SemSearchEmbed(p)
        \/ SemSearchQuery(p)

SpecSemantic == InitSemantic /\ [][NextSemantic]_vars

(***************************************************************************)
(* Either program: the server of main.go or the semantic variant runs.     *)
(***************************************************************************)
InitBoth == Init \/ InitSemantic

NextBoth == Next \/ NextSemantic

SpecBoth == InitBoth /\ [][NextBoth]_vars

(***************************************************************************)
(* Vocabulary of the claims.                                               *)
(***************************************************************************)
StoredOk(r) == ~r.isError /\ r.text = "Memory stored with ID"
DeletedOk(r) == ~r.isError /\ r.text = "deleted successfully"

\* Caller p's handler returns in this step.
AddReturns(p) == pc[p] \in {"add_put", "add_index"} /\ pc'[p] = "done"
DeleteReturns(p) == pc[p] \in {"delete_update", "delete_index"} /\ pc'[p] = "done"
SearchReturns(p) == pc[p] = "search_view" /\ pc'[p] = "done"

\* No caller other than p has made a call yet.
OnlyCaller(p) == \A q \in Callers \ {p} : pc[q] = "idle"

\* No add or delete call is in progress.
Quiescent ==
    \A p \in Callers : pc[p] \notin {"add_put", "add_index", "delete_update", "delete_index"}

IdsOf(ms) == [i \in DOMAIN ms |-> ms[i].ID]

NoRepeat(s) == \A i, j \in DOMAIN s : i # j => s[i] # s[j]

(***************************************************************************)
(* C1                                                                      *)
(***************************************************************************)
\* C1 (as claimed): whenever no add or delete call is in progress, every id
\* with an entry in the index has a record in the Record Store.
C1_NoDanglingWhenQuiescent == Quiescent => DOMAIN index \subseteq DOMAIN db

\* C1 (amended): a delete call returns success only from its index step, with
\* the index holding no entry for the id at that moment; every other way out
\* of Delete is an error result.
C1_SuccessfulDeleteLeavesNoEntry ==
    [][\A p \in Callers :
          /\ (pc[p] # "done" /\ pc'[p] = "done" /\ DeletedOk(res'[p])) =>
                /\ pc[p] = "delete_index"
                /\ res'[p].id = req[p].id.s
                /\ req[p].id.s \notin DOMAIN index'
          /\ (DeleteReturns(p) /\ ~DeletedOk(res'[p])) => res'[p].isError]_vars

\* A record was added, then deleted with success, and the index has no entry.
C1_Witness ==
    \E p \in Callers :
        /\ pc[p] = "done"
        /\ DeletedOk(res[p])
        /\ StoredOk(prev[p])
        /\ prev[p].id = res[p].id
        /\ res[p].id \notin DOMAIN index

(***************************************************************************)
(* C2                                                                      *)
(***************************************************************************)
\* C2: add returns an id only when this call wrote the record to the store
\* and inserted it in the index; an add that leaves the store step or the
\* index step by failure returns an error, so a record stored but not
\* indexed by a failed insertion is never reported as a success.
C2_AddReturnsIdOnlyWhenStoredAndIndexed ==
    [][\A p \in Callers :
          /\ (pc[p] = "add_put" /\ pc'[p] = "add_index") =>
                /\ memory[p].ID \in DOMAIN db'
                /\ db'[memory[p].ID] = Marshal(memory[p])
          /\ (pc[p] = "add_put" /\ pc'[p] = "done") => res'[p].isError
          /\ (pc[p] = "add_index" /\ pc'[p] = "done") =>
                IF memory[p].ID \in DOMAIN index' /\ index'[memory[p].ID] = IndexDoc(memory[p])
                THEN res'[p].isError \/ (StoredOk(res'[p]) /\ res'[p].id = memory[p].ID)
                ELSE res'[p].isError
          /\ (pc[p] # "done" /\ pc'[p] = "done" /\ StoredOk(res'[p])) => pc[p] = "add_index"]_vars

\* An add failed at its index step: its record is stored, not indexed, and
\* the caller holds the error.
C2_Witness ==
    \E p \in Callers :
        /\ pc[p] = "done"
        /\ res[p].isError
        /\ res[p].text = "failed to index memory"
        /\ DOMAIN db \ DOMAIN index # {}

(***************************************************************************)
(* C3                                                                      *)
(***************************************************************************)
\* C3: a caller adds a record, deletes it with success and, nothing else
\* having happened, deletes the same id again: the second delete returns an
\* error (NotFound).
C3_SecondDeleteNotFound ==
    [][\A p \in Callers :
          (/\ DeleteReturns(p)
           /\ OnlyCaller(p)
           /\ StoredOk(prev[p])
           /\ DeletedOk(res[p])
           /\ prev[p].id = res[p].id
           /\ req[p].id.s = res[p].id) => res'[p].isError]_vars

(***************************************************************************)
(* C4                                                                      *)
(***************************************************************************)
\* The ids for which caller p holds a successful delete result.
DeletedBy(p) == {r.id : r \in {x \in {Summary(res[p]), prev[p]} : DeletedOk(x)}}

\* C4: a single caller's delete(id) has returned success; a search the
\* caller makes afterwards returns no record with that id.
C4_DeletedNeverReturned ==
    [][\A p \in Callers :
          (SearchReturns(p) /\ OnlyCaller(p)) =>
              \A i \in DOMAIN res'[p].memories : res'[p].memories[i].ID \notin DeletedBy(p)]_vars

(***************************************************************************)
(* C5                                                                      *)
(***************************************************************************)
\* C5: two add calls that both returned successfully returned different ids.
C5_IdsUnique ==
    \A p, q \in Callers :
        (p # q /\ pc[p] = "done" /\ pc[q] = "done" /\ StoredOk(res[p]) /\ StoredOk(res[q]))
            => res[p].id # res[q].id

(***************************************************************************)
(* C6 (under SpecStart)                                                    *)
(***************************************************************************)
\* C6: once NewMemoryStore has returned the store, the ids in the index are
\* the ids in the Record Store.
C6_StartupConsistent == boot = "up" => (index # NoIndex /\ DOMAIN index = DOMAIN db)

(***************************************************************************)
(* C7 (under SpecQuery)                                                    *)
(***************************************************************************)
\* C7: the hydration step of a search never fails; it returns, in the order
\* of the hits, exactly the hits that have a record in the store, each with
\* the stored record, and leaves out the others.
C7_DanglingHitsOmitted ==
    [][\A p \in Callers :
          SearchReturns(p) =>
              LET InStore(id) == id \in DOMAIN db
                  kept == SelectSeq(hits[p], InStore)
              IN  /\ ~res'[p].isError
                  /\ IdsOf(res'[p].memories) = kept
                  /\ \A i \in DOMAIN kept : res'[p].memories[i] = Unmarshal(db[kept[i]])]_vars

\* The index holds a dangling entry beside two intact records, and a search
\* for everything has returned the two intact records.
C7_Witness ==
    \E p \in Callers :
        /\ pc[p] = "done"
        /\ res[p].text = "results"
        /\ Len(res[p].memories) = 2
        /\ Cardinality(DOMAIN index) = 3
        /\ Cardinality(DOMAIN db) = 2
        /\ DOMAIN db \subseteq DOMAIN index

(***************************************************************************)
(* C8 (under SpecQuery)                                                    *)
(***************************************************************************)
\* C8: a search returns at most Size records and, when the call gives a
\* limit, at most that many.
C8_LimitClamp ==
    [][\A p \in Callers :
          SearchReturns(p) =>
              /\ Len(res'[p].memories) <= Size
              /\ req[p].limit > 0 => Len(res'[p].memories) <= req[p].limit]_vars

(***************************************************************************)
(* C9 (under SpecQuery)                                                    *)
(***************************************************************************)
\* The stored records, as a set of Memory values.
Records == {Unmarshal(db[id]) : id \in DOMAIN db}

\* C9: for a search made with nothing else going on, every returned record
\* carries every tag asked for and, when a text is given, a word of it; and
\* with exactly three records tagged {a}, {b} and {a,b} stored and indexed,
\* the search for tags [a,b] returns exactly the third.
C9_TagsConjunctive ==
    [][\A p \in Callers :
          (SearchReturns(p) /\ OnlyCaller(p)) =>
              LET out == res'[p].memories
              IN  /\ \A i \in DOMAIN out :
                        /\ Range(req[p].tags) \subseteq Range(out[i].Tags)
                        /\ req[p].query # << >> =>
                               Range(req[p].query) \cap Range(out[i].Content) # {}
                  /\ (/\ req[p].query = << >>
                      /\ req[p].tags = <<"a", "b">>
                      /\ DOMAIN index = DOMAIN db
                      /\ Cardinality(DOMAIN db) = 3
                      /\ {m.Tags : m \in Records} = {<<"a">>, <<"b">>, <<"a", "b">>})
                       => /\ Len(out) = 1
                          /\ out[1].Tags = <<"a", "b">>]_vars

(***************************************************************************)
(* C10                                                                     *)
(***************************************************************************)
\* The results the callers hold that report a successful add.
AddsSeen ==
    Cardinality({q \in Callers : StoredOk(res[q])})
        + Cardinality({q \in Callers : StoredOk(prev[q])})

\* C10: when a single caller has made N successful adds and nothing else,
\* its search with empty text and no tags returns min(N, Size) records, all
\* stored, none repeated.
C10_MatchAllReturnsAll ==
    [][\A p \in Callers :
          (/\ SearchReturns(p)
           /\ OnlyCaller(p)
           /\ req[p].query = << >>
           /\ req[p].tags = << >>
           /\ AddsSeen = calls - 1) =>
              /\ Len(res'[p].memories) = Min(calls - 1, Size)
              /\ NoRepeat(IdsOf(res'[p].memories))
              /\ \A i \in DOMAIN res'[p].memories : res'[p].memories[i] \in Records]_vars

(***************************************************************************)
(* C11                                                                     *)
(***************************************************************************)
\* C11: a single caller's add has returned an id and the caller searches
\* next with the added content as query text and no tags: the result is not
\* empty and its first record has that id, the added content and tags.
C11_AddThenSearchFindsIt ==
    [][\A p \in Callers :
          (/\ SearchReturns(p)
           /\ OnlyCaller(p)
           /\ StoredOk(res[p])
           /\ req[p].query = <<"paris">>
           /\ req[p].tags = << >>) =>
              /\ res'[p].memories # << >>
              /\ res'[p].memories[1] = Memory(res[p].id, <<"paris">>, "fact", <<"a">>)]_vars

(***************************************************************************)
(* C12 (under SpecSemantic)                                                *)
(***************************************************************************)
\* C12: an add that ends with an error at its embedding step or at its
\* Record Store write (b.Put in main.go, AddDocument in the semantic
\* variant) leaves the Record Store and the index as they were.
C12_FailedAddCreatesNothing ==
    [][\A p \in Callers :
          (/\ pc[p] \in {"add_put", "sem_add_embed", "sem_add_document"}
           /\ pc'[p] = "done"
           /\ res'[p].isError) => (db' = db /\ index' = index)]_vars

(***************************************************************************)
(* C13 (under SpecSemantic)                                                *)
(***************************************************************************)
\* The steps a handler can be at between its entry and its return.
InProgress ==
    {"add_put", "add_index", "search_index", "search_view", "delete_update",
     "delete_index", "sem_add_embed", "sem_add_document", "sem_search_embed",
     "sem_search_query"}

\* The steps from which a handler returns its success result.
LastSteps ==
    {"add_index", "search_view", "delete_index", "sem_add_document", "sem_search_query"}

\* C13: a call in progress always ends with a result (the process does not
\* end under it); a result that is no error comes from the handler's last
\* step only, every other way out being an error result; and a search that
\* returns no record without a failure returns the text "No matching
\* memories found." as a success.
C13_NoSilentFailure ==
    [][/\ (\E p \in Callers : pc[p] \in InProgress) => boot' = boot
       /\ \A p \in Callers :
            /\ (pc[p] \in InProgress /\ pc'[p] = "done" /\ ~res'[p].isError)
                    => pc[p] \in LastSteps
            /\ (pc[p] \in {"search_view", "sem_search_query"} /\ pc'[p] = "done"
                    /\ ~res'[p].isError /\ res'[p].memories = << >>)
                    => res'[p].text = "No matching memories found."
            /\ (pc[p] \in InProgress /\ pc'[p] = "done"
                    /\ res'[p].text = "No matching memories found.")
                    => ~res'[p].isError]_vars

(***************************************************************************)
(* C14                                                                     *)
(***************************************************************************)
\* C14: when Delete's Record Store step finds no record under the id, the
\* call ends there with an error result (NotFound) and goes on to no index
\* step: the index is left as it is.
C14_DeleteAbsentNotFound ==
    [][\A p \in Callers :
          (/\ pc[p] = "delete_update"
           /\ pc'[p] # "delete_update"
           /\ req[p].id.s \notin DOMAIN db) =>
              /\ pc'[p] = "done"
              /\ res'[p].isError
              /\ index' = index]_vars

(***************************************************************************)
(* C15 (under SpecQuery)                                                   *)
(***************************************************************************)
\* C15: the records a search returns are those of the hits that have a
\* record, none twice, and any two of them stand in the order in which
\* their hits stand in the index's ranked hit sequence.
C15_RankOrderPreserved ==
    [][\A p \in Callers :
          SearchReturns(p) =>
              LET out == IdsOf(res'[p].memories)
                  Pos(id) == CHOOSE i \in DOMAIN hits[p] : hits[p][i] = id
              IN  /\ Range(out) = Range(hits[p]) \cap DOMAIN db
                  /\ NoRepeat(out)
                  /\ \A i, j \in DOMAIN out : i < j => Pos(out[i]) < Pos(out[j])]_vars

\* A search has returned two records in an order that is not the order of
\* their keys, from an index that ranked a dangling entry among them.
C15_Witness ==
    /\ pc[1] = "done"
    /\ Len(res[1].memories) = 2
    /\ res[1].memories[1].ID = MemID(3)
    /\ res[1].memories[2].ID = MemID(1)
    /\ MemID(2) \in DOMAIN index \ DOMAIN db

(***************************************************************************)
(* C16                                                                     *)
(***************************************************************************)
\* C16: whatever other callers' adds and deletes do meanwhile, the records a
\* search returns are all records the Record Store holds at the one moment
\* of the search's hydration step; a record whose store removal was
\* complete by then is not returned.
C16_ReturnedRecordsAreStored ==
    [][\A p \in Callers :
          SearchReturns(p) =>
              \A i \in DOMAIN res'[p].memories :
                  /\ res'[p].memories[i].ID \in DOMAIN db
                  /\ Marshal(res'[p].memories[i]) = db[res'[p].memories[i].ID]]_vars

\* A search has returned a record that another caller's delete, still
\* before its index step, has removed from the Record Store since.
C16_Witness ==
    \E p, q \in Callers :
        /\ pc[p] = "done"
        /\ pc[q] = "delete_index"
        /\ \E i \in DOMAIN res[p].memories : res[p].memories[i].ID = req[q].id.s
        /\ req[q].id.s \notin DOMAIN db
        /\ req[q].id.s \in DOMAIN index

(***************************************************************************)
(* C17 (under SpecBoth)                                                    *)
(***************************************************************************)
\* The required string argument of the call is a string.
ArgOk(r) ==
    /\ r.tool = "add_memory" => r.content.isString
    /\ r.tool = "delete_memory" => r.id.isString
    /\ (r.tool = "search_memory" /\ boot = "chromem") => r.query.isString

ValidationErrors ==
    {"content must be a string", "id must be a string", "query must be a string"}

\* C17: the step that accepts a tool call changes neither the Record Store
\* nor the index, and either the handler goes on with its required argument
\* a string, or the call returns in that very step, before any embedding,
\* store or index step, with a validation error.
C17_ValidationBeforeIO ==
    [][calls' = calls + 1 =>
          /\ db' = db
          /\ index' = index
          /\ \E p \in Callers :
                /\ pc[p] \notin InProgress
                /\ \/ pc'[p] \in InProgress /\ ArgOk(req'[p])
                   \/ /\ pc'[p] = "done"
                      /\ res'[p].isError
                      /\ res'[p].text \in ValidationErrors]_vars

\* Semantic variant: after a successful add, an add_memory call without a
\* string content has returned its error; the collection holds the one
\* document of the earlier add.
C17_Witness ==
    \E p \in Callers :
        /\ boot = "chromem"
        /\ pc[p] = "done"
        /\ res[p].isError
        /\ res[p].text = "content must be a string"
        /\ StoredOk(prev[p])
        /\ DOMAIN db = {prev[p].id}

(***************************************************************************)
(* C18 (under SpecBoth)                                                    *)
(***************************************************************************)
\* The steps of the search_memory handlers.
SearchSteps == {"search_index", "search_view", "sem_search_embed", "sem_search_query"}

\* C18: no step of a search, from the handler's entry to its return with
\* records, with none or with an error, changes the Record Store or the index.
C18_SearchReadOnly ==
    [][\A p \in Callers :
          (\/ pc[p] \notin InProgress /\ pc'[p] \in SearchSteps
           \/ pc[p] \in SearchSteps /\ pc'[p] # pc[p]) =>
              (db' = db /\ index' = index)]_vars

\* A record was added and indexed; the same caller's next call, a search,
\* has returned an error, and store and index hold exactly that record.
C18_Witness ==
    \E p \in Callers :
        /\ boot = "up"
        /\ pc[p] = "done"
        /\ res[p].isError
        /\ res[p].text = "search failed"
        /\ StoredOk(prev[p])
        /\ DOMAIN db = {prev[p].id}
        /\ DOMAIN index = {prev[p].id}

(***************************************************************************)
(* C19                                                                     *)
(***************************************************************************)
\* Caller p, the only one, has just been told that its delete failed at the
\* index, and is deleting the id whose record is gone and whose index entry
\* remains.
Retrying(p) ==
    /\ OnlyCaller(p)
    /\ res[p].isError
    /\ res[p].text = "failed to delete from index"
    /\ req[p].tool = "delete_memory"
    /\ req[p].id.s \in DOMAIN index \ DOMAIN db

====
